---- MODULE Spec2Model ----
(***************************************************************************)
(* Verification model of nine_innings_bot, train probability calculator    *)
(* (src/src/train_probability_calculator.py).                              *)
(*                                                                         *)
(* Python integers are unbounded, and the accumulator sum_ is a Python     *)
(* float (IEEE-754 binary64).  Both are modelled over naturals written as  *)
(* little-endian limb sequences in base 2^15 ("Big"), so that factorials   *)
(* and 5^n keep their exact value and the rounding of the float additions  *)
(* to 53 significant bits is the rounding the interpreter performs.        *)
(***************************************************************************)
EXTENDS Integers, Sequences, FiniteSets, Bags, TLC

(***************************************************************************)
(* Unbounded naturals (Python int), base 2^15, least significant limb      *)
(* first, no leading zero limb; zero is the empty sequence.                *)
(***************************************************************************)
LimbBase == 32768

RECURSIVE BigOfInt(_)
BigOfInt(k) ==
    IF k = 0 THEN << >> ELSE << k % LimbBase >> \o BigOfInt(k \div LimbBase)

RECURSIVE BigTrim(_)
BigTrim(x) ==
    IF x = << >> THEN << >>
    ELSE IF x[Len(x)] = 0 THEN BigTrim(SubSeq(x, 1, Len(x) - 1))
    ELSE x

\* x + y, limb by limb from position i with carry c
RECURSIVE BigAddFrom(_, _, _, _)
BigAddFrom(x, y, i, c) ==
    IF i > Len(x) /\ i > Len(y)
    THEN (IF c = 0 THEN << >> ELSE << c >>)
    ELSE LET s == (IF i <= Len(x) THEN x[i] ELSE 0)
                  + (IF i <= Len(y) THEN y[i] ELSE 0) + c
         IN  << s % LimbBase >> \o BigAddFrom(x, y, i + 1, s \div LimbBase)

BigAdd(x, y) == BigAddFrom(x, y, 1, 0)

\* x * m for 0 <= m < LimbBase
RECURSIVE BigMulSmallFrom(_, _, _, _)
BigMulSmallFrom(x, m, i, c) ==
    IF i > Len(x)
    THEN (IF c = 0 THEN << >> ELSE << c >>)
    ELSE LET p == x[i] * m + c
         IN  << p % LimbBase >> \o BigMulSmallFrom(x, m, i + 1, p \div LimbBase)

BigMulSmall(x, m) == IF m = 0 THEN << >> ELSE BigMulSmallFrom(x, m, 1, 0)

\* x * y
RECURSIVE BigMulFrom(_, _, _)
BigMulFrom(x, y, j) ==
    IF j > Len(y) THEN << >>
    ELSE BigAdd(BigMulSmall(x, y[j]),
                LET rest == BigMulFrom(x, y, j + 1)
                IN  IF rest = << >> THEN << >> ELSE << 0 >> \o rest)

BigMul(x, y) == BigTrim(BigMulFrom(x, y, 1))

\* floor division and remainder of x by 0 < m < LimbBase, from the top limb
\* down: the result is [q |-> limbs of the quotient (least significant
\* first, untrimmed), r |-> remainder]
RECURSIVE BigDivModSmallFrom(_, _, _, _)
BigDivModSmallFrom(x, m, i, r) ==
    IF i = 0 THEN [q |-> << >>, r |-> r]
    ELSE LET cur == r * LimbBase + x[i]
             low == BigDivModSmallFrom(x, m, i - 1, cur % m)
         IN  [q |-> low.q \o << cur \div m >>, r |-> low.r]

TrimQuotient(dm) == [q |-> BigTrim(dm.q), r |-> dm.r]

BigDivModSmall(x, m) == TrimQuotient(BigDivModSmallFrom(x, m, Len(x), 0))

\* x < y
RECURSIVE BigLessFrom(_, _, _)
BigLessFrom(x, y, i) ==
    IF i = 0 THEN FALSE
    ELSE IF x[i] # y[i] THEN x[i] < y[i]
    ELSE BigLessFrom(x, y, i - 1)

BigLess(x, y) ==
    IF Len(x) # Len(y) THEN Len(x) < Len(y) ELSE BigLessFrom(x, y, Len(x))

BigLeq(x, y) == x = y \/ BigLess(x, y)

(***************************************************************************)
(* IEEE-754 binary64 values of the accumulator.  Every float the loop      *)
(* holds is a non-negative whole number, so it is written as the Big it    *)
(* equals; float(k) and float addition round to 53 significant bits,       *)
(* nearest, ties to even.                                                  *)
(***************************************************************************)
FloatMantissaBits == 53

RECURSIVE SmallBitLen(_)
SmallBitLen(k) == IF k = 0 THEN 0 ELSE 1 + SmallBitLen(k \div 2)

BigBitLen(x) ==
    IF x = << >> THEN 0 ELSE 15 * (Len(x) - 1) + SmallBitLen(x[Len(x)])

\* drop the e lowest bits of q, remembering the last bit dropped (half) and
\* whether any bit dropped before it was set (sticky)
RECURSIVE ShiftRight(_, _, _, _)
ShiftRight(q, e, half, sticky) ==
    IF e = 0 THEN [q |-> q, half |-> half, sticky |-> sticky]
    ELSE LET dm == BigDivModSmall(q, 2)
         IN  ShiftRight(dm.q, e - 1, dm.r = 1, sticky \/ half)

RECURSIVE ShiftLeft(_, _)
ShiftLeft(q, e) == IF e = 0 THEN q ELSE ShiftLeft(BigMulSmall(q, 2), e - 1)

IsOdd(x) == x # << >> /\ x[1] % 2 = 1

\* s is x without its e lowest bits: round to nearest, ties to even
RoundShifted(s, e) ==
    ShiftLeft(IF s.half /\ (s.sticky \/ IsOdd(s.q))
              THEN BigAdd(s.q, << 1 >>) ELSE s.q,
              e)

\* x rounded to a multiple of 2^e
RoundToBits(x, e) ==
    IF e <= 0 THEN x ELSE RoundShifted(ShiftRight(x, e, FALSE, FALSE), e)

\* float(k) for a Python int k >= 0 (also the rounding of an exact sum)
FloatOfInt(x) == RoundToBits(x, BigBitLen(x) - FloatMantissaBits)

\* a + k for a float a and a Python int k: k is converted, the sum rounded
FloatAddInt(a, k) == FloatOfInt(BigAdd(a, FloatOfInt(k)))

RECURSIVE BigPow5(_)
BigPow5(k) == IF k = 0 THEN << 1 >> ELSE BigMulSmall(BigPow5(k - 1), 5)

\* math.pow(5, k) for k >= 0
math_pow5(k) == FloatOfInt(BigPow5(k))

(***************************************************************************)
(* exact_train_count                                                       *)
(***************************************************************************)
RECURSIVE SeqSum(_)
SeqSum(s) == IF s = << >> THEN 0 ELSE s[1] + SeqSum(Tail(s))

RECURSIVE factorial(_)
factorial(k) == IF k <= 1 THEN << 1 >> ELSE BigMulSmall(factorial(k - 1), k)

\* x // k! and whether x % k! = 0.  k! is the product 2 * 3 * ... * k and
\* floor(floor(x / a) / b) = floor(x / (a * b)), so the quotient is taken one
\* small factor at a time; x % (a * b) = 0 iff x % a = 0 and (x // a) % b = 0.
RECURSIVE FloorDivFactorialFrom(_, _, _, _)
FloorDivFactorialFrom(x, d, k, exact) ==
    IF d > k THEN [q |-> x, exact |-> exact]
    ELSE LET dm == BigDivModSmall(x, d)
         IN  IF dm.r = 0
             THEN FloorDivFactorialFrom(dm.q, d + 1, k, exact)
             ELSE FloorDivFactorialFrom(dm.q, d + 1, k, FALSE)

\* variant: the divisor taken as (k + 1)!
FloorDivFactorial_next(x, k) == FloorDivFactorialFrom(x, 2, k + 1, TRUE)

FloorDivFactorial(x, k) == FloorDivFactorialFrom(x, 2, k, TRUE)

\* the loop "for val in possible_repetitions: result //= val" from entry j on:
\* the values of result after each division, with the exactness of that step
RECURSIVE DivisionSteps(_, _, _)
DivisionSteps(result, distribution, j) ==
    IF j > Len(distribution) THEN << >>
    ELSE LET step == FloorDivFactorial(result, distribution[j])
         IN  << step >> \o DivisionSteps(step.q, distribution, j + 1)

\* result after the last division (the factorial itself for an empty tuple)
LastResult(steps, start) ==
    IF steps = << >> THEN start ELSE steps[Len(steps)].q

\* variant: the last entry of the tuple is left out of the divisions
exact_train_count_short(distribution) ==
    LastResult(DivisionSteps(factorial(SeqSum(distribution)),
                             SubSeq(distribution, 1, Len(distribution) - 1), 1),
               factorial(SeqSum(distribution)))

exact_train_count(distribution) ==
    LastResult(DivisionSteps(factorial(SeqSum(distribution)), distribution, 1),
               factorial(SeqSum(distribution)))

(***************************************************************************)
(* partitions: itertools.combinations over range(1, t + n), and the gaps   *)
(* between the chosen cut points.                                          *)
(***************************************************************************)
SetMax(S) == CHOOSE x \in S : \A y \in S : y <= x

\* variant: the pool taken as range(1, t + n - 1)
PoolSize_short(n, t) == IF t + n - 2 > 0 THEN t + n - 2 ELSE 0

\* len(range(1, t + n))
PoolSize(n, t) == IF t + n - 1 > 0 THEN t + n - 1 ELSE 0

\* variant: a pool of exactly n - 1 elements is taken to hold no combination
FirstCombo_strict(n, t) ==
    IF n - 1 >= PoolSize(n, t)
    THEN [done |-> TRUE, combo |-> << >>]
    ELSE [done |-> FALSE, combo |-> [i \in 1..(n - 1) |-> i]]

\* the iterator before its first element is taken
FirstCombo(n, t) ==
    IF n - 1 > PoolSize(n, t)
    THEN [done |-> TRUE, combo |-> << >>]
    ELSE [done |-> FALSE, combo |-> [i \in 1..(n - 1) |-> i]]

\* the combination after c in lexicographic order
NextCombo(c, n, t) ==
    LET r       == Len(c)
        movable == {i \in 1..r : c[i] # PoolSize(n, t) - r + i}
    IN  IF movable = {}
        THEN [done |-> TRUE, combo |-> << >>]
        ELSE LET i == SetMax(movable)
             IN  [done |-> FALSE,
                  combo |-> [j \in 1..r |->
                               IF j < i THEN c[j] ELSE c[i] + 1 + (j - i)]]

\* variant: the gaps listed from the last cut point back to the first
intervals_reversed(c, n, t) ==
    [k \in 1..(Len(c) + 1) |->
        IF k = 1
        THEN t + n - (IF Len(c) = 0 THEN 0 ELSE c[Len(c)]) - 1
        ELSE c[Len(c) + 2 - k]
             - (IF k = Len(c) + 1 THEN 0 ELSE c[Len(c) + 1 - k]) - 1]

\* tuple(intervals(combo)): the gaps between consecutive cut points and the
\* boundaries
intervals(c, n, t) ==
    [k \in 1..(Len(c) + 1) |->
        IF k <= Len(c)
        THEN c[k] - (IF k = 1 THEN 0 ELSE c[k - 1]) - 1
        ELSE t + n - (IF Len(c) = 0 THEN 0 ELSE c[Len(c)]) - 1]

(***************************************************************************)
(* Strings are sequences of one-character strings.                         *)
(***************************************************************************)
UpperLetters ==
    << "A", "B", "C", "D", "E", "F", "G", "H", "I", "J", "K", "L", "M",
       "N", "O", "P", "Q", "R", "S", "T", "U", "V", "W", "X", "Y", "Z" >>

LowerLetters ==
    << "a", "b", "c", "d", "e", "f", "g", "h", "i", "j", "k", "l", "m",
       "n", "o", "p", "q", "r", "s", "t", "u", "v", "w", "x", "y", "z" >>

Digits == << "0", "1", "2", "3", "4", "5", "6", "7", "8", "9" >>

Range(s) == {s[i] : i \in DOMAIN s}

IndexOf(s, ch) == CHOOSE i \in DOMAIN s : s[i] = ch

\* str.lower()
str_lower(s) ==
    [i \in DOMAIN s |->
        IF s[i] \in Range(UpperLetters)
        THEN LowerLetters[IndexOf(UpperLetters, s[i])]
        ELSE s[i]]

\* str.replace(old, new): every non-overlapping occurrence, left to right
RECURSIVE str_replace(_, _, _)
str_replace(s, old, new) ==
    IF Len(s) < Len(old) THEN s
    ELSE IF SubSeq(s, 1, Len(old)) = old
    THEN new \o str_replace(SubSeq(s, Len(old) + 1, Len(s)), old, new)
    ELSE << s[1] >> \o str_replace(Tail(s), old, new)

\* the dict literal, in insertion order
stat_var_dict ==
    << << << "C", "O", "N" >>, << "a" >> >>,
       << << "P", "O", "W" >>, << "b" >> >>,
       << << "E", "Y", "E" >>, << "c" >> >>,
       << << "S", "P", "D" >>, << "d" >> >>,
       << << "F", "L", "D" >>, << "e" >> >>,
       << << "L", "O", "C" >>, << "a" >> >>,
       << << "V", "E", "L" >>, << "b" >> >>,
       << << "S", "T", "A" >>, << "c" >> >>,
       << << "F", "B" >>,      << "d" >> >>,
       << << "B", "R", "K" >>, << "e" >> >> >>

\* the loop over stat_var_dict.items() from item k on
RECURSIVE ReplaceStatNames(_, _)
ReplaceStatNames(cond, k) ==
    IF k > Len(stat_var_dict) THEN cond
    ELSE ReplaceStatNames(
             str_replace(str_replace(cond, stat_var_dict[k][1],
                                     stat_var_dict[k][2]),
                         str_lower(stat_var_dict[k][1]), stat_var_dict[k][2]),
             k + 1)

(***************************************************************************)
(* The condition evaluator (SimpleEval): an expression over the names      *)
(* a..e with integer literals, + and -, comparisons, and not/and/or.  The  *)
(* outcome is [ok |-> TRUE, val |-> value] or [ok |-> FALSE].              *)
(***************************************************************************)
VarNames == {"a", "b", "c", "d", "e"}

CmpChars == {"<", ">", "=", "!"}

CmpOps == { << "<" >>, << ">" >>, << "<", "=" >>, << ">", "=" >>,
            << "=", "=" >>, << "!", "=" >> }

\* the longest prefix of s made of characters in cs
RECURSIVE RunLen(_, _)
RunLen(s, cs) ==
    IF s = << >> \/ s[1] \notin cs THEN 0 ELSE 1 + RunLen(Tail(s), cs)

RECURSIVE NumberOf(_)
NumberOf(ds) ==
    IF ds = << >> THEN 0
    ELSE 10 * NumberOf(SubSeq(ds, 1, Len(ds) - 1))
         + (IndexOf(Digits, ds[Len(ds)]) - 1)

WordToken(w) ==
    IF w \in { << "a", "n", "d" >>, << "o", "r" >>, << "n", "o", "t" >> }
    THEN [k |-> "kw", v |-> w]
    ELSE IF Len(w) = 1 /\ w[1] \in VarNames
    THEN [k |-> "var", v |-> w]
    ELSE [k |-> "name", v |-> w]

\* the tokens of s; a character outside the grammar gives a "bad" token
RECURSIVE Tokens(_)
Tokens(s) ==
    IF s = << >> THEN << >>
    ELSE IF s[1] = " " THEN Tokens(Tail(s))
    ELSE IF s[1] \in Range(Digits)
    THEN LET n == RunLen(s, Range(Digits))
         IN  << [k |-> "num", v |-> SubSeq(s, 1, n)] >>
             \o Tokens(SubSeq(s, n + 1, Len(s)))
    ELSE IF s[1] \in Range(LowerLetters) \cup Range(UpperLetters)
    THEN LET n == RunLen(s, Range(LowerLetters) \cup Range(UpperLetters))
         IN  << WordToken(SubSeq(s, 1, n)) >>
             \o Tokens(SubSeq(s, n + 1, Len(s)))
    ELSE IF s[1] \in CmpChars
    THEN LET n == RunLen(s, CmpChars)
         IN  << [k |-> IF SubSeq(s, 1, n) \in CmpOps THEN "cmp" ELSE "bad",
                 v |-> SubSeq(s, 1, n)] >>
             \o Tokens(SubSeq(s, n + 1, Len(s)))
    ELSE IF s[1] \in {"+", "-"}
    THEN << [k |-> "add", v |-> << s[1] >>] >> \o Tokens(Tail(s))
    ELSE << [k |-> "bad", v |-> << s[1] >>] >> \o Tokens(Tail(s))

EvalFail == [ok |-> FALSE, val |-> 0, pos |-> 0]

IsTok(ts, p, kind) == p <= Len(ts) /\ ts[p].k = kind

IsKw(ts, p, w) == IsTok(ts, p, "kw") /\ ts[p].v = w

\* atom := number | variable
EvalAtom(ts, p, names) ==
    IF IsTok(ts, p, "num")
    THEN [ok |-> TRUE, val |-> NumberOf(ts[p].v), pos |-> p + 1]
    ELSE IF IsTok(ts, p, "var")
    THEN [ok |-> TRUE, val |-> names[ts[p].v[1]], pos |-> p + 1]
    ELSE EvalFail

\* sum := atom (("+" | "-") atom)*, with the value acc of the part before p
RECURSIVE EvalSumRest(_, _, _, _)
EvalSumRest(ts, p, names, acc) ==
    IF ~IsTok(ts, p, "add") THEN [ok |-> TRUE, val |-> acc, pos |-> p]
    ELSE LET rhs == EvalAtom(ts, p + 1, names)
         IN  IF ~rhs.ok THEN EvalFail
             ELSE EvalSumRest(ts, rhs.pos, names,
                              IF ts[p].v = << "+" >> THEN acc + rhs.val
                              ELSE acc - rhs.val)

EvalSumFrom(ts, names, lhs) ==
    IF ~lhs.ok THEN EvalFail ELSE EvalSumRest(ts, lhs.pos, names, lhs.val)

EvalSum(ts, p, names) == EvalSumFrom(ts, names, EvalAtom(ts, p, names))

Compare(op, x, y) ==
    CASE op = << "<" >>      -> x < y
      [] op = << ">" >>      -> x > y
      [] op = << "<", "=" >> -> x <= y
      [] op = << ">", "=" >> -> x >= y
      [] op = << "=", "=" >> -> x = y
      [] op = << "!", "=" >> -> x # y

CompareWith(op, lhs, rhs) ==
    IF ~rhs.ok THEN EvalFail
    ELSE [ok |-> TRUE, val |-> Compare(op, lhs.val, rhs.val), pos |-> rhs.pos]

ComparisonFrom(ts, names, lhs) ==
    IF ~lhs.ok THEN EvalFail
    ELSE IF ~IsTok(ts, lhs.pos, "cmp")
    THEN [ok |-> TRUE, val |-> lhs.val # 0, pos |-> lhs.pos]
    ELSE CompareWith(ts[lhs.pos].v, lhs, EvalSum(ts, lhs.pos + 1, names))

\* comparison := sum (cmpop sum)?   (a bare sum is true when non-zero)
EvalComparison(ts, p, names) == ComparisonFrom(ts, names, EvalSum(ts, p, names))

\* not_expr := "not" not_expr | comparison
RECURSIVE EvalNot(_, _, _)
EvalNot(ts, p, names) ==
    IF IsKw(ts, p, << "n", "o", "t" >>)
    THEN LET arg == EvalNot(ts, p + 1, names)
         IN  IF ~arg.ok THEN EvalFail
             ELSE [ok |-> TRUE, val |-> ~arg.val, pos |-> arg.pos]
    ELSE EvalComparison(ts, p, names)

\* and_expr := not_expr ("and" not_expr)*
RECURSIVE EvalAndRest(_, _, _, _)
EvalAndRest(ts, p, names, acc) ==
    IF ~IsKw(ts, p, << "a", "n", "d" >>)
    THEN [ok |-> TRUE, val |-> acc, pos |-> p]
    ELSE LET rhs == EvalNot(ts, p + 1, names)
         IN  IF ~rhs.ok THEN EvalFail
             ELSE EvalAndRest(ts, rhs.pos, names, acc /\ rhs.val)

EvalAndFrom(ts, names, lhs) ==
    IF ~lhs.ok THEN EvalFail ELSE EvalAndRest(ts, lhs.pos, names, lhs.val)

EvalAnd(ts, p, names) == EvalAndFrom(ts, names, EvalNot(ts, p, names))

\* expr := and_expr ("or" and_expr)*
RECURSIVE EvalOrRest(_, _, _, _)
EvalOrRest(ts, p, names, acc) ==
    IF ~IsKw(ts, p, << "o", "r" >>)
    THEN [ok |-> TRUE, val |-> acc, pos |-> p]
    ELSE LET rhs == EvalAnd(ts, p + 1, names)
         IN  IF ~rhs.ok THEN EvalFail
             ELSE EvalOrRest(ts, rhs.pos, names, acc \/ rhs.val)

EvalOrFrom(ts, names, lhs) ==
    IF ~lhs.ok THEN EvalFail ELSE EvalOrRest(ts, lhs.pos, names, lhs.val)

EvalOr(ts, p, names) == EvalOrFrom(ts, names, EvalAnd(ts, p, names))

\* the whole token sequence must be one expression
WholeExpression(ts, r) ==
    IF r.ok /\ r.pos = Len(ts) + 1
    THEN [ok |-> TRUE, val |-> r.val]
    ELSE [ok |-> FALSE, val |-> FALSE]

EvalTokens(ts, names) == WholeExpression(ts, EvalOr(ts, 1, names))

\* SimpleEval(names).eval(expr)
SimpleEval_eval(expr, names) == EvalTokens(Tokens(expr), names)

(***************************************************************************)
(* calc_train_probability                                                  *)
(***************************************************************************)
Horizon == 20

\* variant: the check that the sum is a multiple of 3 is missing
InputError_no_multiple(train, level) ==
    IF Len(train) # 5 THEN "Must have exactly 5 values in current train"
    ELSE IF \E j \in DOMAIN train : train[j] < 0
    THEN "Current train values less than 0"
    ELSE IF ~(0 <= 3 * level - SeqSum(train)
              /\ 3 * level - SeqSum(train) <= 3 * Horizon)
    THEN "Target level not between 0 and 20"
    ELSE ""

\* the checks at the head of the function, in order: the message of the
\* AssertionError raised, or "" when the inputs pass
InputError(train, level) ==
    IF Len(train) # 5 THEN "Must have exactly 5 values in current train"
    ELSE IF \E j \in DOMAIN train : train[j] < 0
    THEN "Current train values less than 0"
    ELSE IF SeqSum(train) % 3 # 0
    THEN "Current train invalid. Must be multiple of 3"
    \* 0 <= target_level - sum(cur_train) / 3 <= 20, times 3
    ELSE IF ~(0 <= 3 * level - SeqSum(train)
              /\ 3 * level - SeqSum(train) <= 3 * Horizon)
    THEN "Target level not between 0 and 20"
    ELSE ""

\* variant: the level counted from 0
cur_level_from_zero(train) == SeqSum(train) \div 3

\* int(sum(cur_train) / 3 + 1)
cur_level(train) == SeqSum(train) \div 3 + 1

\* 3 * (target_level - cur_level)
PointsLeft(train, level) == 3 * (level - cur_level(train))

VarOrder == << "a", "b", "c", "d", "e" >>

\* var_val_dict after the inner loop over enumerate(var_val_dict.keys())
Bindings(i, train) ==
    [letter \in VarNames |-> i[IndexOf(VarOrder, letter)]
                             + train[IndexOf(VarOrder, letter)]]

\* sum_ / math.pow(5, train_points_left), as the fraction num / den.  For a
\* negative exponent math.pow gives 1 / 5^k and the quotient is sum_ * 5^k.
FinalDivision(s, points) ==
    IF points >= 0
    THEN [num |-> s, den |-> math_pow5(points)]
    ELSE [num |-> BigMul(s, BigPow5(-points)), den |-> << 1 >>]

(***************************************************************************)
(* Inputs explored                                                         *)
(***************************************************************************)
MaxAhead == 3

BigLevel == 10

MaxTotal == 6

Trains ==
    { << 0, 0, 0, 0, 0 >>, << 3, 0, 0, 0, 0 >>, << 1, 0, 2, 0, 0 >>,
      << 0, 0, 0, 0 >>, << 0, 0, 0, 0, 0, 0 >>,
      << -1, 1, 0, 0, 0 >>, << 1, 0, 0, 0, 0 >>, << 2, 2, 0, 0, 0 >> }

a_ge_0 == << "a", ">", "=", "0" >>

a_ge_3 == << "a", ">", "=", "3" >>

Conditions ==
    { a_ge_0, a_ge_3,
      << "C", "O", "N", ">", "=", "1", " ", "a", "n", "d", " ",
         "p", "o", "w", "<", "2" >>,
      << "b", "+", "c", "=", "=", "3", " ", "o", "r", " ",
         "n", "o", "t", " ", "e", "<", "2" >>,
      << "C", "o", "n", ">", "=", "1" >>,
      << "a", ">", "=" >> }

\* target levels from one below sum/3 up to MaxAhead above it, and the first
\* two levels past the horizon
LevelOffsets == (-1 .. MaxAhead) \cup {Horizon + 1, Horizon + 2}

Requests ==
    { [cur_train |-> t, target_level |-> SeqSum(t) \div 3 + o, condition |-> c] :
        t \in Trains, o \in LevelOffsets, c \in Conditions }

BigRequests ==
    { [cur_train |-> << 0, 0, 0, 0, 0 >>, target_level |-> BigLevel,
       condition |-> a_ge_0] }

GenTotals == 0 .. MaxTotal

(***************************************************************************)
(* State                                                                   *)
(***************************************************************************)
VARIABLES
    pc,                 \* position in calc_train_probability
    cur_train,          \* argument
    target_level,       \* argument
    condition,          \* argument, rebound by the alias loop
    var_val_dict,       \* names handed to SimpleEval
    sum_,               \* accumulator (float)
    train_points_left,  \* local
    it,                 \* the generator partitions(5, train_points_left)
    outcome,            \* value returned (num / den) or exception raised
    evals,              \* calls of condition_eval.eval in this call
    gen_pc,             \* a generator partitions(5, gen_t) on its own:
                        \* "none", "running" or "exhausted"
    gen_t,              \* its argument t
    gen_it,             \* its position
    gen_out,            \* the tuples it has yielded, in order
    request,            \* the arguments of the call, as the caller holds them
    sc_pc,              \* position in GoogleSheetsScoutingQuery.read_scouting
    sc_connected,       \* cls._connected
    sc_sheet,           \* cls._sheet is set
    sc_i,               \* attempts of the sheet operations started in this call
    sc_fails,           \* attempts of this call that raised
    sc_filtered,        \* filtered_teams of the latest attempt
    sc_teams,           \* tuple_teams
    sc_out,             \* value returned or exception raised
    cmd_pc,             \* position in the train_prob command
    cmd_args,           \* the options of the command, as the user gave them
    responses,          \* what context.respond has sent for this command
    gi_pc,              \* position in calc_gi
    base_stats,         \* argument
    gi_target,          \* argument
    initial_gi,         \* local, the list that is returned
    gi_out              \* value returned or exception raised

vars == << pc, cur_train, target_level, condition, var_val_dict, sum_,
           train_points_left, it, outcome, evals, gen_pc, gen_t, gen_it, gen_out,
           request, sc_pc, sc_connected, sc_sheet, sc_i, sc_fails, sc_filtered,
           sc_teams, sc_out, cmd_pc, cmd_args, responses, gi_pc, base_stats,
           gi_target, initial_gi, gi_out >>

calcVars == << pc, cur_train, target_level, condition, var_val_dict, sum_,
               train_points_left, it, outcome, evals, request >>

genVars == << gen_pc, gen_t, gen_it, gen_out >>

scoutVars == << sc_pc, sc_connected, sc_sheet, sc_i, sc_fails, sc_filtered,
                sc_teams, sc_out >>

cmdVars == << cmd_pc, cmd_args, responses >>

giVars == << gi_pc, base_stats, gi_target, initial_gi, gi_out >>

NoRequest == [cur_train |-> << >>, target_level |-> 0, condition |-> << >>]

NoScoutOutcome == [kind |-> "none", rows |-> << >>]

NoCommand == [cur_train |-> << >>, level |-> 0, conditions |-> << >>]

NoGi == [kind |-> "none", gi |-> << >>]

NoOutcome == [kind |-> "none", num |-> << >>, den |-> << 1 >>, msg |-> ""]

Raised(kind, msg) == [kind |-> kind, num |-> << >>, den |-> << 1 >>, msg |-> msg]

Returned(q) == [kind |-> "return", num |-> q.num, den |-> q.den, msg |-> ""]

Init ==
    /\ pc = "idle"
    /\ cur_train = << >>
    /\ target_level = 0
    /\ condition = << >>
    /\ var_val_dict = [letter \in VarNames |-> 0]
    /\ sum_ = << >>
    /\ train_points_left = 0
    /\ it = [done |-> TRUE, combo |-> << >>]
    /\ outcome = NoOutcome
    /\ evals = 0
    /\ gen_pc = "none"
    /\ gen_t = 0
    /\ gen_it = [done |-> TRUE, combo |-> << >>]
    /\ gen_out = << >>
    /\ request = NoRequest
    /\ sc_pc = "idle"
    /\ sc_connected = FALSE
    /\ sc_sheet = FALSE
    /\ sc_i = 0
    /\ sc_fails = 0
    /\ sc_filtered = << >>
    /\ sc_teams = << >>
    /\ sc_out = NoScoutOutcome
    /\ cmd_pc = "idle"
    /\ cmd_args = NoCommand
    /\ responses = << >>
    /\ gi_pc = "idle"
    /\ base_stats = << >>
    /\ gi_target = 0
    /\ initial_gi = << >>
    /\ gi_out = NoGi

\* variant: the condition rewritten by the previous call is kept, as a
\* module-level cache would keep it
Call_cached(req) ==
    /\ pc \in {"idle", "done", "raised"}
    /\ pc' = "validate"
    /\ cur_train' = req.cur_train
    /\ target_level' = req.target_level
    /\ condition' = IF pc = "idle" THEN req.condition ELSE condition
    /\ var_val_dict' = [letter \in VarNames |-> 0]
    /\ sum_' = << >>
    /\ train_points_left' = 0
    /\ it' = [done |-> TRUE, combo |-> << >>]
    /\ outcome' = NoOutcome
    /\ evals' = 0
    /\ request' = req
    /\ UNCHANGED << genVars, scoutVars, giVars >>

\* a call of calc_train_probability(cur_train, target_level, condition)
Call(req) ==
    /\ pc \in {"idle", "done", "raised"}
    /\ pc' = "validate"
    /\ cur_train' = req.cur_train
    /\ target_level' = req.target_level
    /\ condition' = req.condition
    /\ var_val_dict' = [letter \in VarNames |-> 0]
    /\ sum_' = << >>
    /\ train_points_left' = 0
    /\ it' = [done |-> TRUE, combo |-> << >>]
    /\ outcome' = NoOutcome
    /\ evals' = 0
    /\ request' = req
    /\ UNCHANGED << genVars, scoutVars, giVars >>

\* variant: the input checks are skipped and the call goes on to the alias
\* replacement whatever the inputs
Validate_unchecked ==
    /\ pc = "validate"
    /\ pc' = "canon"
    /\ UNCHANGED << cur_train, target_level, condition, var_val_dict, sum_,
                    train_points_left, it, outcome, evals >>
    /\ UNCHANGED << request, genVars, scoutVars, cmdVars, giVars >>

\* "Ensure inputs are valid"
Validate ==
    /\ pc = "validate"
    /\ IF InputError(cur_train, target_level) # ""
       THEN /\ pc' = "raised"
            /\ outcome' = Raised("AssertionError",
                                 InputError(cur_train, target_level))
       ELSE /\ pc' = "canon"
            /\ UNCHANGED outcome
    /\ UNCHANGED << cur_train, target_level, condition, var_val_dict, sum_,
                    train_points_left, it, evals >>
    /\ UNCHANGED << request, genVars, scoutVars, cmdVars, giVars >>

\* "Replace condition stat names with variable names"
Canonicalize ==
    /\ pc = "canon"
    /\ condition' = ReplaceStatNames(condition, 1)
    /\ pc' = "setup"
    /\ UNCHANGED << cur_train, target_level, var_val_dict, sum_,
                    train_points_left, it, outcome, evals >>
    /\ UNCHANGED << request, genVars, scoutVars, cmdVars, giVars >>

\* "Create condition parser", sum_, cur_level, train_points_left and the
\* generator the for statement iterates
Setup ==
    /\ pc = "setup"
    /\ var_val_dict' = [letter \in VarNames |-> 0]
    /\ sum_' = << >>
    /\ train_points_left' = PointsLeft(cur_train, target_level)
    /\ it' = FirstCombo(5, PointsLeft(cur_train, target_level))
    /\ pc' = "loop"
    /\ UNCHANGED << cur_train, target_level, condition, outcome, evals >>
    /\ UNCHANGED << request, genVars, scoutVars, cmdVars, giVars >>

\* one iteration of "for i in partitions(5, train_points_left)"
LoopStep ==
    /\ pc = "loop"
    /\ ~it.done
    /\ \E i \in {intervals(it.combo, 5, train_points_left)} :
       \E r \in {SimpleEval_eval(condition, Bindings(i, cur_train))} :
           /\ var_val_dict' = Bindings(i, cur_train)
           /\ evals' = evals + 1
           /\ IF ~r.ok
              THEN /\ pc' = "raised"
                   /\ outcome' = Raised("InvalidCondition", "")
                   /\ UNCHANGED << sum_, it >>
              ELSE /\ sum_' = IF r.val
                              THEN FloatAddInt(sum_, exact_train_count(i))
                              ELSE sum_
                   /\ it' = NextCombo(it.combo, 5, train_points_left)
                   /\ UNCHANGED << pc, outcome >>
    /\ UNCHANGED << cur_train, target_level, condition, train_points_left >>
    /\ UNCHANGED << request, genVars, scoutVars, cmdVars, giVars >>

\* the generator is exhausted: "return sum_ / math.pow(5, train_points_left)"
Return ==
    /\ pc = "loop"
    /\ it.done
    /\ outcome' = Returned(FinalDivision(sum_, train_points_left))
    /\ pc' = "done"
    /\ UNCHANGED << cur_train, target_level, condition, var_val_dict, sum_,
                    train_points_left, it, evals >>
    /\ UNCHANGED << request, genVars, scoutVars, cmdVars, giVars >>

\* partitions(5, t) called on its own: the generator object is created
GenStart(t) ==
    /\ pc = "idle"
    /\ gen_pc \in {"none", "exhausted"}
    /\ gen_pc' = "running"
    /\ gen_t' = t
    /\ gen_it' = FirstCombo(5, t)
    /\ gen_out' = << >>
    /\ UNCHANGED << calcVars, scoutVars, cmdVars, giVars >>

\* next() on the generator: one tuple is yielded, or the iteration stops
GenNext ==
    /\ gen_pc = "running"
    /\ IF gen_it.done
       THEN /\ gen_pc' = "exhausted"
            /\ UNCHANGED << gen_it, gen_out >>
       ELSE /\ gen_out' = Append(gen_out, intervals(gen_it.combo, 5, gen_t))
            /\ gen_it' = NextCombo(gen_it.combo, 5, gen_t)
            /\ UNCHANGED gen_pc
    /\ UNCHANGED gen_t
    /\ UNCHANGED << calcVars, scoutVars, cmdVars, giVars >>

(***************************************************************************)
(* GoogleSheetsScoutingQuery (src/src/scouter.py).  A sheet row is "r1" or *)
(* "r2" (a row that parses into a TeamInfo) or "bad" (a row whose date     *)
(* makes datetime.strptime raise).  What the file system, the Google       *)
(* client and the sheet answer is chosen by the environment.               *)
(***************************************************************************)
MaxRows == 2

RowKinds == {"r1", "r2", "bad"}

\* the lists filtered_teams can be
RowSeqs == UNION { [1..n -> RowKinds] : n \in 0..MaxRows }

\* what the statements from open(...) to the filtering give in one attempt:
\* an exception before filtered_teams is assigned, or filtered_teams
SheetResults ==
    { [fetched |-> FALSE, rows |-> << >>] }
    \cup { [fetched |-> TRUE, rows |-> r] : r \in RowSeqs }

\* the rows appended to tuple_teams before the loop over filtered_teams ends
\* or raises
RECURSIVE GoodPrefix(_)
GoodPrefix(rows) ==
    IF rows = << >> \/ rows[1] = "bad" THEN << >>
    ELSE << rows[1] >> \o GoodPrefix(Tail(rows))

\* _connect(): the class attributes after it and the exception it raises
ConnectResult(exists, ok, connected, sheet) ==
    IF ~exists
    THEN [connected |-> connected, sheet |-> sheet,
          raised |-> "FileNotFoundError"]
    ELSE IF ok
    THEN [connected |-> TRUE, sheet |-> TRUE, raised |-> "none"]
    ELSE [connected |-> FALSE, sheet |-> sheet, raised |-> "RuntimeError"]

ScoutRaised(kind) == [kind |-> kind, rows |-> << >>]

\* read_scouting is called: "Try connecting", the connection check and
\* tuple_teams = []
ScoutCall ==
    /\ sc_pc \in {"idle", "returned", "raised"}
    /\ sc_i' = 0
    /\ sc_fails' = 0
    /\ sc_filtered' = << >>
    /\ sc_teams' = << >>
    /\ \E exists \in BOOLEAN, ok \in BOOLEAN :
       \E c \in { IF sc_connected
                  THEN [connected |-> sc_connected, sheet |-> sc_sheet,
                        raised |-> "none"]
                  ELSE ConnectResult(exists, ok, sc_connected, sc_sheet) } :
          /\ sc_connected' = c.connected
          /\ sc_sheet' = c.sheet
          /\ IF c.raised # "none"
             THEN sc_pc' = "raised" /\ sc_out' = ScoutRaised(c.raised)
             ELSE IF ~(c.connected /\ c.sheet)
             THEN sc_pc' = "raised" /\ sc_out' = ScoutRaised("RuntimeError")
             ELSE sc_pc' = "attempt" /\ sc_out' = NoScoutOutcome
    /\ UNCHANGED << calcVars, genVars, cmdVars, giVars >>

\* one iteration of "for i in range(2)": the sheet operations, and on an
\* exception the handler's _connect()
ScoutAttempt ==
    /\ sc_pc = "attempt"
    /\ sc_i < 2
    /\ sc_i' = sc_i + 1
    /\ \E data \in SheetResults, exists \in BOOLEAN, ok \in BOOLEAN :
          /\ sc_filtered' = IF data.fetched THEN data.rows ELSE sc_filtered
          /\ sc_teams' = sc_teams \o GoodPrefix(data.rows)
          /\ IF data.fetched /\ GoodPrefix(data.rows) = data.rows
             THEN \* "Stop after first attempt if successful"
                  /\ sc_pc' = "after"
                  /\ UNCHANGED << sc_fails, sc_connected, sc_sheet, sc_out >>
             ELSE \E c \in {ConnectResult(exists, ok, sc_connected, sc_sheet)} :
                  /\ sc_fails' = sc_fails + 1
                  /\ sc_connected' = c.connected
                  /\ sc_sheet' = c.sheet
                  /\ IF c.raised # "none"
                     THEN sc_pc' = "raised" /\ sc_out' = ScoutRaised(c.raised)
                     ELSE /\ sc_pc' = IF sc_i + 1 = 2 THEN "after" ELSE "attempt"
                          /\ UNCHANGED sc_out
    /\ UNCHANGED << calcVars, genVars, cmdVars, giVars >>

\* after the loop: "Tell user if connection failed", the empty result, return
ScoutFinish ==
    /\ sc_pc = "after"
    /\ IF ~sc_connected
       THEN sc_pc' = "raised" /\ sc_out' = ScoutRaised("RuntimeError")
       ELSE IF sc_teams = << >>
       THEN sc_pc' = "raised" /\ sc_out' = ScoutRaised("RuntimeWarning")
       ELSE sc_pc' = "returned" /\ sc_out' = [kind |-> "return", rows |-> sc_teams]
    /\ UNCHANGED << sc_connected, sc_sheet, sc_i, sc_fails, sc_filtered, sc_teams >>
    /\ UNCHANGED << calcVars, genVars, cmdVars, giVars >>

NextScout ==
    \/ ScoutCall
    \/ ScoutAttempt
    \/ ScoutFinish

SpecScout == Init /\ [][NextScout]_vars

Next ==
    \/ \E req \in Requests : Call(req) /\ UNCHANGED cmdVars
    \/ Validate
    \/ Canonicalize
    \/ Setup
    \/ LoopStep
    \/ Return

Spec == Init /\ [][Next]_vars

NextFloat ==
    \/ \E req \in BigRequests : Call(req) /\ UNCHANGED cmdVars
    \/ Validate
    \/ Canonicalize
    \/ Setup
    \/ LoopStep
    \/ Return

SpecFloat == Init /\ [][NextFloat]_vars

NextGen ==
    \/ \E t \in GenTotals : GenStart(t)
    \/ GenNext

SpecGen == Init /\ [][NextGen]_vars

(***************************************************************************)
(* The train_prob command of the bot                                       *)
(***************************************************************************)
\* str.split(" "): the pieces between single spaces, empty pieces kept
RECURSIVE str_split(_)
str_split(s) ==
    IF \A i \in DOMAIN s : s[i] # " " THEN << s >>
    ELSE LET i == CHOOSE k \in DOMAIN s :
                      s[k] = " " /\ \A m \in 1 .. (k - 1) : s[m] # " "
         IN  << SubSeq(s, 1, i - 1) >> \o str_split(SubSeq(s, i + 1, Len(s)))

\* int(piece) for a piece without blanks: an optional sign and one or more
\* decimal digits, anything else is a ValueError
int_of(piece) ==
    LET signed == piece # << >> /\ piece[1] \in {"+", "-"}
        digits == IF signed THEN Tail(piece) ELSE piece
    IN  IF digits = << >> \/ \E i \in DOMAIN digits : digits[i] \notin Range(Digits)
        THEN [ok |-> FALSE, val |-> 0]
        ELSE [ok |-> TRUE,
              val |-> IF signed /\ piece[1] = "-" THEN 0 - NumberOf(digits)
                      ELSE NumberOf(digits)]

\* [int(stat) for stat in cur_train.split(" ")]
train_stats(s) ==
    LET pieces == str_split(s)
    IN  [ok |-> \A i \in DOMAIN pieces : int_of(pieces[i]).ok,
         val |-> [i \in DOMAIN pieces |-> int_of(pieces[i]).val]]

Text(t) == [kind |-> "text", text |-> t, num |-> << >>, den |-> << >>]

\* the report: prob * 100 and 1 / prob of the float prob = num / den
Report(num, den) == [kind |-> "report", text |-> "Probability that:",
                     num |-> num, den |-> den]

\* on_application_command_error: the exception is the response
ErrorResponse(error) ==
    [kind |-> "error", text |-> error, num |-> << >>, den |-> << >>]

MaxCmdLevel == 2

CmdTrains ==
    { << "0", " ", "0", " ", "0", " ", "0", " ", "0" >>,
      << "3", " ", "0", " ", "0", " ", "0", " ", "0" >>,
      << "+", "1", " ", "0", " ", "2", " ", "0", " ", "0" >>,
      << "1", "2", " ", "0", " ", "0", " ", "0", " ", "0" >>,
      << "-", "1", " ", "1", " ", "0", " ", "0", " ", "0" >>,
      << "0", " ", "0", " ", "0", " ", "0" >>,
      << "0", " ", "0", " ", "x", " ", "0", " ", "0" >>,
      << "0", " ", " ", "0", " ", "0", " ", "0", " ", "0" >>,
      << >> }

\* levels near the trains' own, and one past the horizon of every train
CmdLevels == (0 .. MaxCmdLevel) \cup {Horizon + 5}

CmdConditions == { a_ge_0, a_ge_3, << "a", ">", "=" >> }

Commands ==
    { [cur_train |-> s, level |-> l, conditions |-> c] :
        s \in CmdTrains, l \in CmdLevels, c \in CmdConditions }

\* /train_prob up to the call of calc_train_probability
TrainProb(cmd) ==
    /\ cmd_pc \in {"idle", "finished"}
    /\ pc \in {"idle", "done", "raised"}
    /\ cmd_args' = cmd
    /\ IF train_stats(cmd.cur_train).ok
       THEN /\ responses' = << Text("Calculating...") >>
            /\ cmd_pc' = "calculating"
            /\ Call([cur_train |-> train_stats(cmd.cur_train).val,
                     target_level |-> cmd.level,
                     condition |-> cmd.conditions])
       ELSE /\ responses' =
                  << Text("Invalid training stats. Please try again") >>
            /\ cmd_pc' = "finished"
            /\ UNCHANGED << calcVars, genVars, scoutVars, giVars >>

\* calc_train_probability has returned prob: the report is formatted and
\* sent; 1 / prob raises ZeroDivisionError when prob is 0.0, and the
\* exception goes to on_application_command_error
TrainProbReport ==
    /\ cmd_pc = "calculating"
    /\ pc = "done"
    /\ responses' =
          Append(responses,
                 IF outcome.num = << >>
                 THEN ErrorResponse("ZeroDivisionError")
                 ELSE Report(outcome.num, outcome.den))
    /\ cmd_pc' = "finished"
    /\ UNCHANGED << cmd_args, calcVars, genVars, scoutVars, giVars >>

\* calc_train_probability has raised: the exception leaves the command and
\* goes to on_application_command_error
TrainProbError ==
    /\ cmd_pc = "calculating"
    /\ pc = "raised"
    /\ responses' = Append(responses, ErrorResponse(outcome.kind))
    /\ cmd_pc' = "finished"
    /\ UNCHANGED << cmd_args, calcVars, genVars, scoutVars, giVars >>

NextCmd ==
    \/ \E cmd \in Commands : TrainProb(cmd)
    \/ Validate
    \/ Canonicalize
    \/ Setup
    \/ LoopStep
    \/ Return
    \/ TrainProbReport
    \/ TrainProbError

SpecCmd == Init /\ [][NextCmd]_vars

(***************************************************************************)
(* calc_gi                                                                 *)
(***************************************************************************)
\* a float between 0 and 1 is written as the Big m with value
\* m / LimbBase^FractionLimbs
FractionLimbs == 5

\* x without its e lowest bits, e >= 1, with the last bit dropped (half) and
\* whether any bit dropped before it was set (sticky): whole limbs are
\* dropped first, then the r = e % 15 bits left
DropBits(x, k, r) ==
    LET dm == BigDivModSmall(SubSeq(x, k + 1, Len(x)), 2 ^ r)
        below == \E i \in 1 .. (k - 1) : i <= Len(x) /\ x[i] # 0
        limb == IF k >= 1 /\ k <= Len(x) THEN x[k] ELSE 0
    IN  IF r >= 1
        THEN [q |-> dm.q,
              half |-> dm.r >= 2 ^ (r - 1),
              sticky |-> dm.r % (2 ^ (r - 1)) # 0 \/ limb # 0 \/ below]
        ELSE [q |-> dm.q,
              half |-> limb >= LimbBase \div 2,
              sticky |-> limb % (LimbBase \div 2) # 0 \/ below]

\* s.q put back at bit 15 * k + r, after rounding to nearest, ties to even
RoundDropped(s, k, r) ==
    [i \in 1 .. k |-> 0]
        \o BigMulSmall(IF s.half /\ (s.sticky \/ IsOdd(s.q))
                       THEN BigAdd(s.q, << 1 >>) ELSE s.q,
                       2 ^ r)

\* x rounded to 53 significant bits
RoundToFloat(x, e) ==
    IF e <= 0 THEN x
    ELSE RoundDropped(DropBits(x, e \div 15, e % 15), e \div 15, e % 15)

\* a / b for Python ints a >= 0 and 0 < b < LimbBase: the quotient rounded
\* to 53 significant bits; a remainder is kept as a set lowest bit, below
\* the bits the rounding keeps
WithRemainder(dm) ==
    IF dm.r # 0 /\ dm.q[1] % 2 = 0 THEN [dm.q EXCEPT ![1] = @ + 1] ELSE dm.q

Rounded(x) == RoundToFloat(x, BigBitLen(x) - FloatMantissaBits)

float_div(a, b) ==
    IF a = 0 THEN << >>
    ELSE Rounded(WithRemainder(
             BigDivModSmall([i \in 1 .. FractionLimbs |-> 0] \o BigOfInt(a), b)))

\* x * t for a float x and a Python int 0 <= t < LimbBase: t is converted
\* exactly, the product rounded
float_mul_int(x, t) == Rounded(BigMulSmall(x, t))

RECURSIVE IntOfBig(_)
IntOfBig(x) == IF x = << >> THEN 0 ELSE x[1] + LimbBase * IntOfBig(Tail(x))

\* int(np.floor(x)) for a float x >= 0
int_floor(x) == IntOfBig(SubSeq(x, FractionLimbs + 1, Len(x)))

\* np.argsort(-1 * np.array(base_stats)): the indices by descending stat; the
\* default sort is not stable, equal stats come in any order
argsort_descending(stats) ==
    { order \in [DOMAIN stats -> DOMAIN stats] :
        /\ \A i, j \in DOMAIN stats : i # j => order[i] # order[j]
        /\ \A i, j \in DOMAIN stats :
              i < j => stats[order[i]] >= stats[order[j]] }

MaxGiTarget == 6

GiStats ==
    { << 40, 40, 40, 40, 40 >>, << 48, 43, 40, 40, 40 >>,
      << 50, 50, 50, 45, 45 >>, << 41, 52, 52, 52, 52 >>,
      << 60, 55, 47, 43, 40 >>, << 40, 40, 41, 40, 40 >>,
      << 99, 40, 40, 40, 99 >>, << 39, 50, 50, 50, 50 >>,
      << 50, 50, 50, 50 >>, << 50, 50, 50, 50, 50, 50 >> }

\* targets from -1 to MaxGiTarget, and one where a share is a whole number
\* that the float product falls short of
GiTargets == (-1 .. MaxGiTarget) \cup {55}

GiRaised(kind) == [kind |-> kind, gi |-> << >>]

\* a call of calc_gi(base_stats, gi_target)
GiCall(stats, target) ==
    /\ gi_pc \in {"idle", "returned", "raised"}
    /\ gi_pc' = "validate"
    /\ base_stats' = stats
    /\ gi_target' = target
    /\ initial_gi' = << >>
    /\ gi_out' = NoGi
    /\ UNCHANGED << calcVars, genVars, scoutVars, cmdVars >>

\* the three input checks
GiValidate ==
    /\ gi_pc = "validate"
    /\ IF \/ Len(base_stats) # 5
          \/ gi_target < 0
          \/ \E i \in DOMAIN base_stats : base_stats[i] < 40
       THEN /\ gi_pc' = "raised"
            /\ gi_out' = GiRaised("ValueError")
       ELSE /\ gi_pc' = "initial"
            /\ UNCHANGED gi_out
    /\ UNCHANGED << base_stats, gi_target, initial_gi >>
    /\ UNCHANGED << calcVars, genVars, scoutVars, cmdVars >>

\* initial_gi = [int(np.floor((stat - 40) / (sum(base_stats) - 200)
\*                            * gi_target)) for stat in base_stats]
GiInitial ==
    /\ gi_pc = "initial"
    /\ IF SeqSum(base_stats) - 200 = 0
       THEN /\ gi_pc' = "raised"
            /\ gi_out' = GiRaised("ZeroDivisionError")
            /\ UNCHANGED initial_gi
       ELSE /\ initial_gi' =
                  [i \in DOMAIN base_stats |->
                      int_floor(float_mul_int(
                          float_div(base_stats[i] - 40,
                                    SeqSum(base_stats) - 200),
                          gi_target))]
            /\ gi_pc' = "leftover"
            /\ UNCHANGED gi_out
    /\ UNCHANGED << base_stats, gi_target >>
    /\ UNCHANGED << calcVars, genVars, scoutVars, cmdVars >>

\* the leftover loop and the return
GiLeftover ==
    /\ gi_pc = "leftover"
    /\ \E leftover_order \in argsort_descending(base_stats) :
          IF gi_target - SeqSum(initial_gi) > Len(base_stats)
          THEN /\ gi_pc' = "raised"
               /\ gi_out' = GiRaised("IndexError")
               /\ UNCHANGED initial_gi
          ELSE /\ initial_gi' =
                     [i \in DOMAIN initial_gi |->
                         IF \E idx \in 1 .. (gi_target - SeqSum(initial_gi)) :
                                leftover_order[idx] = i
                         THEN initial_gi[i] + 1 ELSE initial_gi[i]]
               /\ gi_pc' = "returned"
               /\ gi_out' = [kind |-> "return", gi |-> initial_gi']
    /\ UNCHANGED << base_stats, gi_target >>
    /\ UNCHANGED << calcVars, genVars, scoutVars, cmdVars >>

NextGi ==
    \/ \E stats \in GiStats, target \in GiTargets : GiCall(stats, target)
    \/ GiValidate
    \/ GiInitial
    \/ GiLeftover

SpecGi == Init /\ [][NextGi]_vars

(***************************************************************************)
(* Reference notions used by the properties                                *)
(***************************************************************************)
\* k! as the product 1 * 2 * ... * k
RECURSIVE ProductUpTo(_)
ProductUpTo(k) == IF k <= 0 THEN << 1 >> ELSE BigMulSmall(ProductUpTo(k - 1), k)

\* p[j]! * ... * p[Len(p)]!
RECURSIVE ProductOfFactorials(_, _)
ProductOfFactorials(p, j) ==
    IF j > Len(p) THEN << 1 >>
    ELSE BigMul(ProductUpTo(p[j]), ProductOfFactorials(p, j + 1))

\* Pascal's triangle, rows 0..n: row m holds the number of ways to choose r
\* of m steps, r = 0..m, by the addition rule
RECURSIVE PascalNextFrom(_, _)
PascalNextFrom(row, j) ==
    IF j > Len(row) + 1 THEN << >>
    ELSE << (IF j > 1 THEN row[j - 1] ELSE 0)
            + (IF j <= Len(row) THEN row[j] ELSE 0) >>
         \o PascalNextFrom(row, j + 1)

RECURSIVE PascalRows(_)
PascalRows(n) ==
    IF n = 0 THEN << << 1 >> >>
    ELSE LET prev == PascalRows(n - 1)
         IN  Append(prev, PascalNextFrom(prev[n], 1))

\* the sum of the second components of a set of pairs << key, Big >>, limb
\* by limb: the limbs at one position are added as a bag's cardinality and
\* the carries are propagated afterwards
LimbTotal(terms, p) ==
    BagCardinality([t \in {u \in terms : p <= Len(u[2]) /\ u[2][p] > 0}
                       |-> t[2][p]])

RECURSIVE CarryFrom(_, _, _)
CarryFrom(totals, i, c) ==
    IF i > Len(totals) THEN BigOfInt(c)
    ELSE << (totals[i] + c) % LimbBase >>
         \o CarryFrom(totals, i + 1, (totals[i] + c) \div LimbBase)

BigSumOfWidth(terms, width) ==
    BigTrim(CarryFrom([p \in 1..width |-> LimbTotal(terms, p)], 1, 0))

BigSum(terms) ==
    BigSumOfWidth(terms, SetMax({0} \cup {Len(u[2]) : u \in terms}))

\* the number of ordered sequences of n unit increments on the stats j..5
\* after which the distribution, final on the stats before j, satisfies cond:
\* x of the n steps land on stat j, in one of (n choose x) ways
RECURSIVE FavourableFrom(_, _, _, _, _)
FavourableFrom(tri, cond, dist, j, n) ==
    IF j = 5
    THEN (IF SimpleEval_eval(cond,
                 [letter \in VarNames |->
                     dist[IndexOf(VarOrder, letter)]
                     + (IF letter = "e" THEN n ELSE 0)]).val
          THEN << 1 >> ELSE << >>)
    ELSE BigSum({ << x, BigMul(BigOfInt(tri[n + 1][x + 1]),
                               FavourableFrom(tri, cond,
                                              [dist EXCEPT ![j] = dist[j] + x],
                                              j + 1, n - x)) >>
                  : x \in 0..n })

Favourable(train, points, cond) ==
    FavourableFrom(PascalRows(points), cond, train, 1, points)

TrainValid(train) ==
    /\ Len(train) = 5
    /\ \A j \in DOMAIN train : train[j] >= 0
    /\ SeqSum(train) % 3 = 0

\* current_level = sum(current_distribution) / 3 + 1
CurrentLevel(train) == SeqSum(train) \div 3 + 1

InHorizon(train, level) ==
    CurrentLevel(train) <= level /\ level <= CurrentLevel(train) + 20

PointsRemaining(train, level) == 3 * (level - CurrentLevel(train))

Finished == pc \in {"done", "raised"}

InputRejected == pc = "raised" /\ outcome.kind = "AssertionError"

Zeros == << 0, 0, 0, 0, 0 >>

(***************************************************************************)
(* Properties                                                              *)
(***************************************************************************)

\* C1: for a valid distribution and a target level within the horizon, the
\* value returned is (number of ordered sequences of points_remaining unit
\* increments whose final distribution satisfies the condition) divided by
\* 5^points_remaining, points_remaining = 3 * (target_level - current_level).
C1_ExactProbability ==
    (pc = "done" /\ TrainValid(cur_train) /\ InHorizon(cur_train, target_level))
    => /\ outcome.kind = "return"
       /\ BigMul(outcome.num,
                 BigPow5(PointsRemaining(cur_train, target_level)))
          = BigMul(Favourable(cur_train,
                              PointsRemaining(cur_train, target_level),
                              condition),
                   outcome.den)

\* C2: every target level with current_level <= target_level <=
\* current_level + 20 is accepted: the call does not end with the input error.
C2_FullHorizonAccepted ==
    (Finished /\ TrainValid(cur_train) /\ InHorizon(cur_train, target_level))
    => ~InputRejected

\* C3: a target level below current_level or above current_level + 20 ends
\* the call with the input error, and the enumeration never starts with a
\* negative number of points.
C3_OutOfHorizonRejected ==
    /\ (pc \notin {"idle", "validate"} /\ TrainValid(cur_train)
        /\ ~InHorizon(cur_train, target_level))
       => InputRejected
    /\ pc = "loop" => train_points_left >= 0

C5_TautologyIsOne ==
    (Finished /\ TrainValid(cur_train) /\ InHorizon(cur_train, target_level)
     /\ condition = a_ge_0)
    => /\ pc = "done"
       /\ outcome.num = outcome.den

\* C6: a returned value lies in [0,1]: the accumulated count is at most the
\* divisor (and is a natural number).
C6_InUnitInterval ==
    pc = "done" => BigLeq(outcome.num, outcome.den)

\* C7: partitions(5, total) yields exactly C(total+4, 4) tuples, pairwise
\* distinct, each of length 5 with entries >= 0 summing to total; for
\* total = 0 only (0,0,0,0,0).
C7_PartitionsComplete ==
    /\ \A k \in DOMAIN gen_out :
          /\ Len(gen_out[k]) = 5
          /\ \A j \in 1..5 : gen_out[k][j] >= 0
          /\ SeqSum(gen_out[k]) = gen_t
    /\ gen_pc = "exhausted" =>
          /\ Len(gen_out) = PascalRows(gen_t + 4)[gen_t + 5][5]
          /\ Cardinality(Range(gen_out)) = Len(gen_out)
          /\ gen_t = 0 => gen_out = << Zeros >>

C7_Witness ==
    gen_pc = "exhausted" /\ gen_t = 4 /\ Len(gen_out) = 70

\* exact_train_count(out[1]) + ... + exact_train_count(out[Len(out)])
SumOfCounts(out) ==
    BigSum({ << k, exact_train_count(out[k]) >> : k \in DOMAIN out })

\* C8: the sum of exact_train_count(p) over all partitions p produced by
\* partitions(5, S) equals 5^S.
C8_CountsSumToPower ==
    gen_pc = "exhausted" => SumOfCounts(gen_out) = BigPow5(gen_t)

C8_Witness ==
    gen_pc = "exhausted" /\ gen_t = 3 /\ SumOfCounts(gen_out) = << 125 >>

LastYielded == gen_out[Len(gen_out)]

StepsOfLast ==
    DivisionSteps(factorial(SeqSum(LastYielded)), LastYielded, 1)

\* C9: exact_train_count(p) is the integer sum! / (p0! * ... * p4!), every
\* division of the loop leaves remainder zero, and the result is 1 for
\* (S,0,0,0,0) and (0,0,0,0,0).
C9_ExactMultinomial ==
    gen_out # << >> =>
       /\ BigMul(exact_train_count(LastYielded),
                 ProductOfFactorials(LastYielded, 1))
          = ProductUpTo(SeqSum(LastYielded))
       /\ \A j \in DOMAIN StepsOfLast :
             /\ StepsOfLast[j].exact
             /\ BigMul(StepsOfLast[j].q, ProductUpTo(LastYielded[j]))
                = (IF j = 1 THEN ProductUpTo(SeqSum(LastYielded))
                   ELSE StepsOfLast[j - 1].q)
       /\ LastYielded = << gen_t, 0, 0, 0, 0 >>
             => exact_train_count(LastYielded) = << 1 >>

C9_Witness ==
    /\ gen_out # << >>
    /\ LastYielded = << 1, 2, 0, 1, 2 >>
    /\ exact_train_count(LastYielded) = << 180 >>

\* C10: a current_distribution without exactly 5 entries, or with an entry
\* < 0, or with a sum that is not a multiple of 3, ends the call with the
\* input error, with no value returned and no evaluation of the condition.
C10_MalformedTrainRejected ==
    (pc \notin {"idle", "validate"} /\ ~TrainValid(cur_train))
    => /\ InputRejected
       /\ outcome.num = << >>
       /\ evals = 0

C10_Witness ==
    /\ InputRejected
    /\ Len(cur_train) = 5
    /\ \A j \in DOMAIN cur_train : cur_train[j] >= 0
    /\ SeqSum(cur_train) % 3 # 0

(***************************************************************************)
(* Conditions and canonicalization                                         *)
(***************************************************************************)
\* the call got past the input assertions
PassedValidation == pc \notin {"idle", "validate"} /\ ~InputRejected

\* the evaluator rejects the text (whatever the bindings)
Malformed(cond) == ~SimpleEval_eval(cond, [letter \in VarNames |-> 0]).ok

\* C11: for every input that passes validation, a condition that is
\* malformed or names a variable outside a..e ends the call with the
\* evaluator's InvalidCondition error; no probability is returned.
C11_InvalidConditionPropagates ==
    (Finished /\ PassedValidation /\ Malformed(condition))
    => /\ pc = "raised"
       /\ outcome.kind = "InvalidCondition"

\* sub occurs in s
Contains(s, sub) ==
    \E i \in 1..(Len(s) - Len(sub) + 1) : SubSeq(s, i, i + Len(sub) - 1) = sub

\* the alias that starts s in any letter case: its index in stat_var_dict, 0
\* when there is none
AliasAtHead(s) ==
    LET hits == {k \in DOMAIN stat_var_dict :
                    /\ Len(stat_var_dict[k][1]) <= Len(s)
                    /\ str_lower(SubSeq(s, 1, Len(stat_var_dict[k][1])))
                       = str_lower(stat_var_dict[k][1])}
    IN  IF hits = {} THEN 0 ELSE CHOOSE k \in hits : TRUE

\* s with every alias, in any letter case, rewritten to its variable and
\* every other character kept
RECURSIVE AliasesRewritten(_)
AliasesRewritten(s) ==
    IF s = << >> THEN << >>
    ELSE LET k == AliasAtHead(s)
         IN  IF k = 0 THEN << s[1] >> \o AliasesRewritten(Tail(s))
             ELSE stat_var_dict[k][2]
                  \o AliasesRewritten(SubSeq(s, Len(stat_var_dict[k][1]) + 1,
                                             Len(s)))

\* the alias replacement of this call has run
Canonicalized == pc \in {"setup", "loop", "done"} \/ (pc = "raised" /\ PassedValidation)

\* C12: after canonicalization no alias of either vocabulary remains in the
\* condition, in upper, lower or mixed case, and the condition is the text
\* received with the aliases rewritten to a..e and nothing else changed.
C12_AliasesAnyCase ==
    Canonicalized
    => /\ \A k \in DOMAIN stat_var_dict :
             ~Contains(str_lower(condition), str_lower(stat_var_dict[k][1]))
       /\ condition = AliasesRewritten(request.condition)

\* C13: with target_level = current_level (no points remaining) the
\* condition is evaluated exactly once, on current_distribution itself, and
\* the value returned is 1.0 when it holds and 0.0 when it does not.
C13_NoPointsOneEvaluation ==
    (Finished /\ TrainValid(cur_train)
     /\ target_level = CurrentLevel(cur_train))
    => /\ evals = 1
       /\ train_points_left = 0
       /\ var_val_dict = [letter \in VarNames |->
                             cur_train[IndexOf(VarOrder, letter)]]
       /\ IF Malformed(condition)
          THEN pc = "raised" /\ outcome.kind = "InvalidCondition"
          ELSE /\ pc = "done"
               /\ outcome.den = << 1 >>
               /\ outcome.num
                  = (IF SimpleEval_eval(condition, var_val_dict).val
                     THEN << 1 >> ELSE << >>)

C13_Witness ==
    /\ pc = "done"
    /\ cur_train = << 3, 0, 0, 0, 0 >> /\ target_level = 2
    /\ condition = a_ge_3
    /\ evals = 1
    /\ outcome.num = << 1 >> /\ outcome.den = << 1 >>

\* C14: for a valid distribution with a >= k already, the condition "a>=k"
\* returns 1.0 for every target level the call accepts (k = 0 and k = 3 are
\* the bounds the requests carry).
C14_SatisfiedBoundStays ==
    (Finished /\ TrainValid(cur_train) /\ PassedValidation
     /\ (condition = a_ge_0 \/ (condition = a_ge_3 /\ cur_train[1] >= 3)))
    => /\ pc = "done"
       /\ outcome.num = outcome.den

(***************************************************************************)
(* Order of the partitions                                                 *)
(***************************************************************************)
\* the cut points a tuple of part sizes comes from: the k-th cut point lies
\* after the first k parts
CutPoints(p) == [k \in 1..(Len(p) - 1) |-> SeqSum(SubSeq(p, 1, k)) + k]

\* x before y in lexicographic order
LexLess(x, y) ==
    \E i \in DOMAIN x : (\A j \in 1..(i - 1) : x[j] = y[j]) /\ x[i] < y[i]

\* every choice of 4 strictly increasing cut points in [1, t + 5)
AllCuts(t) ==
    { c \in (1..(t + 4)) \X (1..(t + 4)) \X (1..(t + 4)) \X (1..(t + 4)) :
        c[1] < c[2] /\ c[2] < c[3] /\ c[3] < c[4] }

\* the position of the cut points c in lexicographic order, from 1
LexRank(c, t) == Cardinality({ d \in AllCuts(t) : LexLess(d, c) }) + 1

\* C15: partitions(5, t) yields its tuples in the lexicographically
\* increasing order of their cut points: the tuple at position k is the one
\* whose cut points have rank k, so the sequence is a function of t alone and
\* a second invocation repeats it element by element; the first tuple is
\* (0,0,0,0,t) and the last (t,0,0,0,0).
C15_FixedOrder ==
    gen_out # << >> =>
       /\ LexRank(CutPoints(LastYielded), gen_t) = Len(gen_out)
       /\ gen_out[1] = << 0, 0, 0, 0, gen_t >>
       /\ gen_pc = "exhausted"
             => /\ LastYielded = << gen_t, 0, 0, 0, 0 >>
                /\ Len(gen_out) = Cardinality(AllCuts(gen_t))

C15_Witness ==
    /\ gen_pc = "exhausted" /\ gen_t = 2
    /\ Len(gen_out) = 15
    /\ gen_out[1] = << 0, 0, 0, 0, 2 >>
    /\ gen_out[2] = << 0, 0, 0, 1, 1 >>
    /\ gen_out[15] = << 2, 0, 0, 0, 0 >>

(***************************************************************************)
(* Purity                                                                  *)
(***************************************************************************)
\* the outcome of a call that starts from nothing but its arguments: the
\* input error, the evaluator's error, or the favourable count over the
\* divisor (cond is the condition after the alias replacement)
FreshFor(train, level, cond) ==
    IF InputError(train, level) # ""
    THEN [kind |-> "AssertionError", num |-> << >>, den |-> << 1 >>,
          msg |-> InputError(train, level)]
    ELSE IF 3 * (level - CurrentLevel(train)) < 0
    THEN [kind |-> "return", num |-> << >>, den |-> << 1 >>, msg |-> ""]
    ELSE IF Malformed(cond)
    THEN [kind |-> "InvalidCondition", num |-> << >>, den |-> << 1 >>,
          msg |-> ""]
    ELSE [kind |-> "return",
          num |-> Favourable(train, 3 * (level - CurrentLevel(train)), cond),
          den |-> math_pow5(3 * (level - CurrentLevel(train))),
          msg |-> ""]

FreshOutcome(req) ==
    FreshFor(req.cur_train, req.target_level,
             ReplaceStatNames(req.condition, 1))

\* C16: the outcome of a call (value or error) is a function of its three
\* arguments alone, whatever calls ran before it, and the distribution and
\* the level the caller passed are unchanged when the call ends.
C16_PureFunction ==
    Finished
    => /\ outcome = FreshOutcome(request)
       /\ cur_train = request.cur_train
       /\ target_level = request.target_level

C16_Witness ==
    /\ pc = "done"
    /\ request.cur_train = << 1, 0, 2, 0, 0 >>
    /\ request.target_level = 4
    /\ request.condition # condition
    /\ cur_train = request.cur_train
    /\ outcome.kind = "return"
    /\ outcome.num # << >>
    /\ outcome.num # outcome.den

(***************************************************************************)
(* The enumeration loop                                                    *)
(***************************************************************************)
MaxCap == 30

\* the number of partitions of points into 5 parts
PartitionCount(points) == Cardinality(AllCuts(points))

\* C17: whatever cap on the partitions examined the caller sets (1..MaxCap),
\* a request with more partitions than the cap ends with the
\* ComputationLimitExceeded error and returns no probability.
C17_CapEnforced ==
    \A cap \in 1..MaxCap :
       (Finished /\ PassedValidation /\ train_points_left >= 0
        /\ PartitionCount(train_points_left) > cap)
       => /\ pc = "raised"
          /\ outcome.kind = "ComputationLimitExceeded"

\* a..e bound to current_distribution[i] + p[i], i = 0..4 in order
BoundTo(train, p) ==
    [letter \in VarNames |->
        train[IndexOf(VarOrder, letter)] + p[IndexOf(VarOrder, letter)]]

\* what the partition p adds to the accumulator
Contribution(train, cond, p) ==
    IF SimpleEval_eval(cond, BoundTo(train, p)).val
    THEN exact_train_count(p) ELSE << >>

\* C18: the accumulator starts at 0; every iteration binds a..e to
\* current_distribution[i] + p[i] and adds exactly exact_train_count(p) when
\* the condition holds and nothing otherwise, so the accumulator is the exact
\* integer sum over the partitions visited; it never decreases and never
\* exceeds 5^points_remaining.
C18_ExactAccumulator ==
    [][ /\ (pc = "setup" /\ pc' = "loop") => sum_' = << >>
        /\ (pc = "loop" /\ pc' = "loop")
           => /\ var_val_dict'
                 = BoundTo(cur_train,
                           intervals(it.combo, 5, train_points_left))
              /\ sum_' = BigAdd(sum_,
                                Contribution(cur_train, condition,
                                             intervals(it.combo, 5,
                                                       train_points_left)))
              /\ BigLeq(sum_, sum_')
              /\ BigLeq(sum_', BigPow5(train_points_left))
      ]_vars

\* C19: within one request the input checks come first, the alias
\* replacement follows them exactly once, and the condition is evaluated only
\* after it; the condition text changes at no other step of the request.
C19_StepOrder ==
    [][ /\ pc' = "validate" => pc \in {"idle", "done", "raised"}
        /\ pc' = "canon"
           => /\ pc = "validate"
              /\ InputError(cur_train, target_level) = ""
              /\ evals = 0
        /\ pc = "canon" => pc' = "setup"
        /\ condition' # condition => (pc = "canon" \/ pc' = "validate")
        /\ evals' > evals
           => /\ pc = "loop"
              /\ evals' = evals + 1
              /\ condition' = condition
              /\ condition = ReplaceStatNames(request.condition, 1)
      ]_vars

C19_Witness ==
    /\ pc = "loop"
    /\ evals = 2
    /\ condition # request.condition
    /\ condition = ReplaceStatNames(request.condition, 1)

(***************************************************************************)
(* Scouting                                                                *)
(***************************************************************************)
\* C20: read_scouting attempts the sheet operations at most twice per call;
\* when they raise on both attempts the call raises RuntimeError; a list is
\* returned only after an attempt that succeeded, and it holds the rows of
\* that attempt alone, none collected during a failed attempt.
C20_ScoutingAttempts ==
    /\ sc_i <= 2
    /\ (sc_pc \in {"returned", "raised"} /\ sc_fails = 2)
       => /\ sc_pc = "raised"
          /\ sc_out.kind = "RuntimeError"
    /\ sc_pc = "returned"
       => /\ sc_fails < sc_i
          /\ sc_out.rows = sc_filtered

(***************************************************************************)
(* The train_prob command                                                  *)
(***************************************************************************)
\* the request is well formed and calc_train_probability has returned a
\* probability for it, and the command has ended
CalcReturnedProbability ==
    /\ cmd_pc = "finished"
    /\ train_stats(cmd_args.cur_train).ok
    /\ pc = "done"
    /\ outcome.kind = "return"
    /\ BigLeq(outcome.num, outcome.den)

\* C21: for every well-formed train_prob request for which
\* calc_train_probability returns a probability in [0, 1], the bot first
\* responds "Calculating..." and then responds with the probability report;
\* the report step never fails.
C21_ReportAfterCalculating ==
    /\ cmd_pc = "calculating" => responses = << Text("Calculating...") >>
    /\ CalcReturnedProbability =>
          /\ Len(responses) = 2
          /\ responses[1] = Text("Calculating...")
          /\ responses[2] = Report(outcome.num, outcome.den)

(***************************************************************************)
(* calc_gi                                                                 *)
(***************************************************************************)
\* the input is one calc_gi accepts
GiAccepted ==
    /\ Len(base_stats) = 5
    /\ gi_target >= 0
    /\ \A i \in DOMAIN base_stats : base_stats[i] >= 40

\* the floor of the proportional share of stat i, in exact arithmetic
ShareFloor(i) ==
    ((base_stats[i] - 40) * gi_target) \div (SeqSum(base_stats) - 200)

\* C22: for every input calc_gi accepts (5 base stats, each >= 40,
\* gi_target >= 0) the call returns, without error, 5 non-negative integers
\* whose sum is gi_target; each entry is the floor of its proportional share
\* (stat - 40) / (sum - 200) * gi_target or that floor plus 1, and the extra
\* points go to the highest base stats.
C22_GiDistribution ==
    (gi_pc \in {"returned", "raised"} /\ GiAccepted) =>
        /\ gi_out.kind = "return"
        /\ Len(gi_out.gi) = 5
        /\ \A i \in 1 .. 5 : gi_out.gi[i] >= 0
        /\ SeqSum(gi_out.gi) = gi_target
        /\ \A i \in 1 .. 5 : gi_out.gi[i] \in {ShareFloor(i), ShareFloor(i) + 1}
        /\ \A i, j \in 1 .. 5 :
              (gi_out.gi[i] = ShareFloor(i) + 1 /\ gi_out.gi[j] = ShareFloor(j))
                  => base_stats[i] >= base_stats[j]

====
